---- MODULE Spec2Model ----
(***************************************************************************)
(* Quantitative analytics of the argent dashboard: the technical           *)
(* indicators of hooks/usePriceHistory.ts and the backtest utilities of    *)
(* hooks/useBacktest.ts (held in src/frontend/src/hooks/usePortfolio.      *)
(* test.ts, lines 123-321), the portfolio utilities of hooks/usePortfolio.  *)
(* ts and the event stream hook of hooks/useSSE.ts.                        *)
(*                                                                         *)
(* A JavaScript number is modelled as an extended rational <<n, d>> in     *)
(* lowest terms with d >= 0: d > 0 is the finite value n/d, <<1, 0>> and   *)
(* <<-1, 0>> are +Infinity and -Infinity, <<0, 0>> is NaN.  Arithmetic is  *)
(* exact: the rounding of IEEE doubles and the sign of zero are not        *)
(* modelled.  The JavaScript value undefined is the empty tuple.           *)
(***************************************************************************)
EXTENDS Integers, Sequences, FiniteSets, TLC

VARIABLES bars, equityCurve, trades, results, positions, call, ret,
          url, eventSourceRef, retriesRef, isConnected, error, progress,
          sources, timers, reported, stopped, handler, mounted

\* the state of the hook useSSE: its argument url, its refs and React state,
\* the readyState of every EventSource it has created, the delays of the
\* pending setTimeout callbacks, the last message given to onError, whether
\* disconnect() has run since the caller last called connect(), the handler
\* that ran last, and whether the component is mounted
hook == <<url, eventSourceRef, retriesRef, isConnected, error, progress,
          sources, timers, reported, stopped, handler, mounted>>

\* the arguments and the result of the analytics functions
analytics == <<bars, equityCurve, trades, results, positions, call, ret>>

vars == <<bars, equityCurve, trades, results, positions, call, ret, hook>>

(***************************************************************************)
(* Program constants                                                       *)
(***************************************************************************)
SMA20 == 20

SMA50 == 50

SMA200 == 200

MACDFast == 12

MACDSlow == 26

MACDSignal == 9

RSIPeriod == 14

BBPeriod == 20

BBStdDev == 2

ATRPeriod == 14

\* bins of the histogram of analyzeTradeDistribution
BinCount == 20

\* the defaults of the options retryCount and retryDelay of useSSE
retryCount == 3

retryDelay == 1000

\* trading days of a year, in the annualisation of calculateRollingMetrics
TradingDays == 252

(***************************************************************************)
(* Bounds of the model                                                     *)
(***************************************************************************)
\* Math.sqrt is exact to 1/SqrtScale
SqrtScale == 100

\* short bar sequences: every sequence of at most MaxLen closes in 1..MaxClose
MaxLen == 4

MaxClose == 2

\* long bar sequences: up to MaxBars bars at FlatClose, the last two moved by
\* at most MaxTail; the calls that take a period are made on the short ones
MaxBars == 201

FlatClose == 10

MaxTail == 1

\* periods 1..MaxPeriod and band widths 1..MaxStdDev of the series calls
MaxPeriod == 3

MaxStdDev == 2

\* equity curves: at most MaxCurveLen points with equity in -MaxEquity..MaxEquity
MaxCurveLen == 3

MaxEquity == 3

\* rolling metrics: curves of at most MaxRollLen points with equity in
\* 0..MaxRollEquity, windows 0..MaxWindow
MaxRollLen == 5

MaxRollEquity == 2

MaxWindow == 3

\* trades: at most MaxTrades trades with pnlPercent absent or in -MaxPnl..MaxPnl
MaxTrades == 3

MaxPnl == 1

\* results: at most MaxResults strategies, returns in -MaxMetric..MaxMetric and
\* maxDrawdown in -MaxDrawdown..1
MaxResults == 2

MaxMetric == 1

MaxDrawdown == 2

\* positions: at most MaxHoldings positions with marketValue and unrealizedPnL
\* in -MaxValue..MaxValue; at most MaxPositions positions with an allocation
\* of k/AllocationParts of 100; up to MaxEqual positions of equal allocation
MaxHoldings == 2

MaxValue == 1

MaxPositions == 4

AllocationParts == 2

MaxEqual == 6

\* the greatest number of bars or points appended to a history
MaxAppend == 2

\* the greatest number of EventSource objects the hook creates, and of
\* setTimeout callbacks pending at a time
MaxSources == 3

MaxTimers == 2

\* character codes of '0' and 'T'
Char0 == 48

CharT == 84

(***************************************************************************)
(* Numbers                                                                 *)
(***************************************************************************)
Abs(x) == IF x < 0 THEN -x ELSE x

Sign(x) == IF x < 0 THEN -1 ELSE IF x > 0 THEN 1 ELSE 0

RECURSIVE GCD(_, _)
GCD(a, b) == IF b = 0 THEN a ELSE GCD(b, a % b)

Norm(n, d) ==
  IF d = 0 THEN <<Sign(n), 0>>
  ELSE LET g == GCD(Abs(n), Abs(d))
       IN  <<Sign(d) * Sign(n) * (Abs(n) \div g), Abs(d) \div g>>

Num(n) == <<n, 1>>

NaN == <<0, 0>>

PosInf == <<1, 0>>

Undefined == <<>>

IsNaN(a) == a = NaN

IsFinite(a) == a # Undefined /\ a[2] > 0

IsNumber(a) == a # Undefined

Neg(a) == <<-a[1], a[2]>>

\* a + b
Add(a, b) ==
  IF a[2] = 0 \/ b[2] = 0
  THEN IF IsNaN(a) \/ IsNaN(b) THEN NaN
       ELSE IF a[2] = 0 /\ b[2] = 0 THEN (IF a[1] = b[1] THEN a ELSE NaN)
       ELSE IF a[2] = 0 THEN a ELSE b
  ELSE LET g == GCD(a[2], b[2])
       IN  Norm(a[1] * (b[2] \div g) + b[1] * (a[2] \div g), (a[2] \div g) * b[2])

\* a - b
Sub(a, b) == Add(a, Neg(b))

\* a * b
Mul(a, b) ==
  IF a[2] = 0 \/ b[2] = 0
  THEN IF IsNaN(a) \/ IsNaN(b) \/ a[1] = 0 \/ b[1] = 0 THEN NaN
       ELSE <<Sign(a[1]) * Sign(b[1]), 0>>
  ELSE LET g1 == GCD(Abs(a[1]), b[2])
           g2 == GCD(Abs(b[1]), a[2])
       IN  Norm((a[1] \div g1) * (b[1] \div g2), (a[2] \div g2) * (b[2] \div g1))

\* a / b: x/0 is +-Infinity, 0/0 is NaN, x/Infinity is 0
Div(a, b) ==
  IF IsNaN(b) THEN NaN
  ELSE IF b[2] = 0 THEN Mul(a, Num(0))
  ELSE IF b[1] = 0 THEN Mul(a, PosInf)
  ELSE Mul(a, Norm(b[2], b[1]))

\* a < b (false when either is NaN)
Lt(a, b) ==
  IF IsNaN(a) \/ IsNaN(b) THEN FALSE
  ELSE IF a[2] = 0 \/ b[2] = 0
       THEN (a[2] = 0 /\ a[1] < 0 /\ b # a) \/ (b[2] = 0 /\ b[1] > 0 /\ b # a)
       ELSE LET g == GCD(a[2], b[2])
            IN  a[1] * (b[2] \div g) < b[1] * (a[2] \div g)

\* a === b on numbers (NaN equals nothing)
Eq(a, b) == ~IsNaN(a) /\ a = b

Le(a, b) == Lt(a, b) \/ Eq(a, b)

Gt(a, b) == Lt(b, a)

Ge(a, b) == Le(b, a)

\* the JavaScript truthiness of a number or undefined, as used by ||
Falsy(a) == a = Undefined \/ IsNaN(a) \/ a = Num(0)

(***************************************************************************)
(* Array helpers                                                           *)
(***************************************************************************)
\* an index of slice: a negative one counts from the end, all are clamped
sliceIndex(k, len) ==
  IF k < 0 THEN (IF len + k < 0 THEN 0 ELSE len + k) ELSE IF k > len THEN len ELSE k

\* data.slice(from, to) with 0-based from (inclusive) and to (exclusive)
Slice(data, from, to) ==
  LET f == sliceIndex(from, Len(data))
      t == sliceIndex(to, Len(data))
  IN  IF t <= f THEN <<>> ELSE SubSeq(data, f + 1, t)

\* data.slice(-period)
SliceLast(data, period) ==
  IF period >= Len(data) THEN data ELSE Slice(data, Len(data) - period, Len(data))

\* The loops below run their body for the 0-based indices lo <= i < hi in
\* increasing order, carrying the loop's variables as their last argument.  A
\* range of more than one index is run as its two halves, one after the
\* other (the first half computed before the second is entered), which keeps
\* the depth of evaluation logarithmic in the range.

\* TRUE; evaluating it makes TLC compute v where it stands, not at its first use
Ready(v) == v = v

\* the array a function over 1..n denotes, held as a tuple
Array(f) == f \o <<>>

\* data.reduce((a, b) => a + b, 0), from the accumulator acc
RECURSIVE sumLoop(_, _, _, _)
sumLoop(data, lo, hi, acc) ==
  IF hi <= lo THEN acc
  ELSE IF hi = lo + 1 THEN Add(acc, data[lo + 1])
  ELSE LET mid == (lo + hi) \div 2
           left == sumLoop(data, lo, mid, acc)
       IN  IF Ready(left) THEN sumLoop(data, mid, hi, left) ELSE left

Sum(data) == sumLoop(data, 0, Len(data), Num(0))

closesOf(bs) == Array([k \in 1..Len(bs) |-> bs[k].close])

highsOf(bs) == Array([k \in 1..Len(bs) |-> bs[k].high])

lowsOf(bs) == Array([k \in 1..Len(bs) |-> bs[k].low])

(***************************************************************************)
(* Point-in-time indicators                                                *)
(***************************************************************************)
\* calculateSMA averaging the first period elements instead of the last
calculateSMAFirst(data, period) ==
  IF Len(data) < period THEN Undefined
  ELSE Div(Sum(Slice(data, 0, period)), Num(period))

calculateSMA(data, period) ==
  IF Len(data) < period THEN Undefined
  ELSE Div(Sum(SliceLast(data, period)), Num(period))

\* one step of the loop body: ema = (data[i] - ema) * multiplier + ema
emaStep(x, ema, multiplier) == Add(Mul(Sub(x, ema), multiplier), ema)

\* for (let i = lo; i < hi; i++) ema = (data[i] - ema) * multiplier + ema
RECURSIVE emaLoop(_, _, _, _, _)
emaLoop(data, lo, hi, multiplier, ema) ==
  IF hi <= lo THEN ema
  ELSE IF hi = lo + 1 THEN emaStep(data[lo + 1], ema, multiplier)
  ELSE LET mid == (lo + hi) \div 2
           left == emaLoop(data, lo, mid, multiplier, ema)
       IN  IF Ready(left) THEN emaLoop(data, mid, hi, multiplier, left) ELSE left

\* calculateEMA seeded with the first element, as calculateEMAForSeries is
calculateEMASeedFirst(data, period) ==
  IF Len(data) < period THEN Undefined
  ELSE emaLoop(data, period, Len(data), Div(Num(2), Num(period + 1)), data[1])

calculateEMA(data, period) ==
  IF Len(data) < period THEN Undefined
  ELSE LET multiplier == Div(Num(2), Num(period + 1))
           seed == Div(Sum(Slice(data, 0, period)), Num(period))
       IN  emaLoop(data, period, Len(data), multiplier, seed)

\* the first loop of calculateRSI: sums of gains and losses over changes 1..period
RECURSIVE rsiSeedLoop(_, _, _, _, _)
rsiSeedLoop(data, i, period, gains, losses) ==
  IF i > period THEN <<gains, losses>>
  ELSE LET change == Sub(data[i + 1], data[i])
       IN  IF Gt(change, Num(0))
           THEN rsiSeedLoop(data, i + 1, period, Add(gains, change), losses)
           ELSE rsiSeedLoop(data, i + 1, period, gains, Sub(losses, change))

\* rsiSmooth adding a falling change to avgLoss without negating it
rsiSmoothSigned(avgGain, avgLoss, change, period) ==
  IF Gt(change, Num(0))
  THEN <<Div(Add(Mul(avgGain, Num(period - 1)), change), Num(period)),
         Div(Mul(avgLoss, Num(period - 1)), Num(period))>>
  ELSE <<Div(Mul(avgGain, Num(period - 1)), Num(period)),
         Div(Add(Mul(avgLoss, Num(period - 1)), change), Num(period))>>

\* one Wilder smoothing step: the new <<avgGain, avgLoss>>
rsiSmooth(avgGain, avgLoss, change, period) ==
  IF Gt(change, Num(0))
  THEN <<Div(Add(Mul(avgGain, Num(period - 1)), change), Num(period)),
         Div(Mul(avgLoss, Num(period - 1)), Num(period))>>
  ELSE <<Div(Mul(avgGain, Num(period - 1)), Num(period)),
         Div(Sub(Mul(avgLoss, Num(period - 1)), change), Num(period))>>

\* the second loop of calculateRSI over lo <= i < hi, from avg = <<avgGain, avgLoss>>
RECURSIVE rsiSmoothLoop(_, _, _, _, _)
rsiSmoothLoop(data, lo, hi, period, avg) ==
  IF hi <= lo THEN avg
  ELSE IF hi = lo + 1
       THEN rsiSmooth(avg[1], avg[2], Sub(data[lo + 1], data[lo]), period)
  ELSE LET mid == (lo + hi) \div 2
           left == rsiSmoothLoop(data, lo, mid, period, avg)
       IN  IF Ready(left) THEN rsiSmoothLoop(data, mid, hi, period, left) ELSE left

\* <<avgGain, avgLoss>> as calculateRSI holds them after its two loops
rsiAverages(data, period) ==
  LET seed == rsiSeedLoop(data, 1, period, Num(0), Num(0))
  IN  rsiSmoothLoop(data, period + 1, Len(data), period,
                    <<Div(seed[1], Num(period)), Div(seed[2], Num(period))>>)

\* rsiValue without the guard on avgLoss === 0
rsiValueUnguarded(avgGain, avgLoss) ==
  Sub(Num(100), Div(Num(100), Add(Num(1), Div(avgGain, avgLoss))))

\* the last three lines of calculateRSI
rsiValue(avgGain, avgLoss) ==
  IF Eq(avgLoss, Num(0)) THEN Num(100)
  ELSE Sub(Num(100), Div(Num(100), Add(Num(1), Div(avgGain, avgLoss))))

calculateRSI(data, period) ==
  IF Len(data) < period + 1 THEN Undefined
  ELSE LET avg == rsiAverages(data, period)
       IN  rsiValue(avg[1], avg[2])

\* one pass of the MACD loop body on the close x: st holds the running 12 and
\* 26 EMAs and the MACD values pushed so far
macdStep(x, st) ==
  LET e12 == emaStep(x, st.ema12, Div(Num(2), Num(13)))
      e26 == emaStep(x, st.ema26, Div(Num(2), Num(27)))
  IN  [ema12 |-> e12, ema26 |-> e26, macdValues |-> Append(st.macdValues, Sub(e12, e26))]

\* the loop of calculateMACD and of generateMACDSeries over lo <= i < hi
RECURSIVE macdLoop(_, _, _, _)
macdLoop(data, lo, hi, st) ==
  IF hi <= lo THEN st
  ELSE IF hi = lo + 1 THEN macdStep(data[lo + 1], st)
  ELSE LET mid == (lo + hi) \div 2
           left == macdLoop(data, lo, mid, st)
       IN  IF Ready(left) THEN macdLoop(data, mid, hi, left) ELSE left

macdValuesOf(data) ==
  macdLoop(data, MACDSlow, Len(data),
           [ema12 |-> Div(Sum(Slice(data, 0, MACDFast)), Num(MACDFast)),
            ema26 |-> Div(Sum(Slice(data, 0, MACDSlow)), Num(MACDSlow)),
            macdValues |-> <<>>]).macdValues

\* calculateMACD answering zeros instead of undefined on short history
calculateMACDZero(data) ==
  LET ema12 == calculateEMA(data, MACDFast)
      ema26 == calculateEMA(data, MACDSlow)
  IN  IF ema12 = Undefined \/ ema26 = Undefined
      THEN [macd |-> Num(0), signal |-> Num(0), histogram |-> Num(0)]
      ELSE LET macdLine == Sub(ema12, ema26)
               sig == calculateEMA(macdValuesOf(data), MACDSignal)
               signalLine == IF Falsy(sig) THEN macdLine ELSE sig
           IN  [macd |-> macdLine, signal |-> signalLine,
                histogram |-> Sub(macdLine, signalLine)]

calculateMACD(data) ==
  LET ema12 == calculateEMA(data, MACDFast)
      ema26 == calculateEMA(data, MACDSlow)
  IN  IF ema12 = Undefined \/ ema26 = Undefined THEN Undefined
      ELSE LET macdLine == Sub(ema12, ema26)
               sig == calculateEMA(macdValuesOf(data), MACDSignal)
               signalLine == IF Falsy(sig) THEN macdLine ELSE sig
           IN  [macd |-> macdLine, signal |-> signalLine,
                histogram |-> Sub(macdLine, signalLine)]

\* floor of the square root of the natural number m, by bisection on lo..hi
RECURSIVE isqrt(_, _, _)
isqrt(m, lo, hi) ==
  IF lo >= hi THEN lo
  ELSE LET mid == (lo + hi + 1) \div 2
       IN  IF mid * mid <= m THEN isqrt(m, mid, hi) ELSE isqrt(m, lo, mid - 1)

\* Math.sqrt, rounded down to a multiple of 1/SqrtScale
Sqrt(a) ==
  IF IsNaN(a) \/ Lt(a, Num(0)) THEN NaN
  ELSE IF a[2] = 0 THEN a
  ELSE LET m == (a[1] * SqrtScale * SqrtScale) \div a[2]
       IN  Norm(isqrt(m, 0, SqrtScale * (a[1] \div a[2] + 1)), SqrtScale)

\* slice.reduce((sum, val) => sum + Math.pow(val - sma, 2), 0) / period
varianceOf(window, sma, period) ==
  Div(Sum(Array([k \in 1..Len(window) |->
                   Mul(Sub(window[k], sma), Sub(window[k], sma))])),
      Num(period))

calculateBollingerBands(data, period, stdDev) ==
  IF Len(data) < period THEN Undefined
  ELSE LET sma == calculateSMA(data, period)
       IN  IF sma = Undefined THEN Undefined
           ELSE LET std == Sqrt(varianceOf(SliceLast(data, period), sma, period))
                IN  [upper |-> Add(sma, Mul(stdDev, std)), middle |-> sma,
                     lower |-> Sub(sma, Mul(stdDev, std))]

\* Math.max of two numbers
MaxNum(a, b) == IF IsNaN(a) \/ IsNaN(b) THEN NaN ELSE IF Lt(a, b) THEN b ELSE a

\* Math.abs
AbsNum(a) == <<Abs(a[1]), a[2]>>

calculateATR(highs, lows, closes, period) ==
  IF Len(highs) < period + 1 THEN Undefined
  ELSE LET trueRanges ==
             Array([k \in 1..(Len(highs) - 1) |->
                      MaxNum(MaxNum(Sub(highs[k + 1], lows[k + 1]),
                                    AbsNum(Sub(highs[k + 1], closes[k]))),
                             AbsNum(Sub(lows[k + 1], closes[k])))])
       IN  calculateSMA(trueRanges, period)

IndicatorFields ==
  {"sma20", "sma50", "sma200", "ema12", "ema26", "rsi", "macd", "bollingerBands", "atr"}

calculateIndicators(bs) ==
  IF Len(bs) = 0 THEN [f \in {} |-> Undefined]
  ELSE LET closes == closesOf(bs)
       IN  [sma20 |-> calculateSMA(closes, SMA20), sma50 |-> calculateSMA(closes, SMA50),
            sma200 |-> calculateSMA(closes, SMA200),
            ema12 |-> calculateEMA(closes, MACDFast),
            ema26 |-> calculateEMA(closes, MACDSlow),
            rsi |-> calculateRSI(closes, RSIPeriod),
            macd |-> calculateMACD(closes),
            bollingerBands |-> calculateBollingerBands(closes, BBPeriod, Num(BBStdDev)),
            atr |-> calculateATR(highsOf(bs), lowsOf(bs), closes, ATRPeriod)]

(***************************************************************************)
(* Chart series                                                            *)
(***************************************************************************)
\* timestamp.split('T')[0]: the characters before the first 'T'
RECURSIVE splitT0(_, _)
splitT0(ts, k) ==
  IF k > Len(ts) \/ ts[k] = CharT THEN SubSeq(ts, 1, k - 1) ELSE splitT0(ts, k + 1)

dateOf(bar) == splitT0(bar.timestamp, 1)

calculateEMAForSeries(data, period) ==
  emaLoop(data, 1, Len(data), Div(Num(2), Num(period + 1)), data[1])

\* one pass of the loop body of generateIndicatorSeries for the 0-based index i
indicatorSeriesStep(bs, closes, period, type, i, result) ==
  LET slice == Slice(closes, i - period + 1, i + 1)
      value == IF type = "sma" THEN Div(Sum(slice), Num(period))
               ELSE calculateEMAForSeries(slice, period)
  IN  Append(result, [time |-> dateOf(bs[i + 1]), value |-> value])

\* the loop of generateIndicatorSeries over lo <= i < hi
RECURSIVE indicatorSeriesLoop(_, _, _, _, _, _, _)
indicatorSeriesLoop(bs, closes, period, type, lo, hi, result) ==
  IF hi <= lo THEN result
  ELSE IF hi = lo + 1 THEN indicatorSeriesStep(bs, closes, period, type, lo, result)
  ELSE LET mid == (lo + hi) \div 2
           left == indicatorSeriesLoop(bs, closes, period, type, lo, mid, result)
       IN  IF Ready(left)
           THEN indicatorSeriesLoop(bs, closes, period, type, mid, hi, left)
           ELSE left

generateIndicatorSeries(bs, period, type) ==
  LET closes == closesOf(bs)
  IN  indicatorSeriesLoop(bs, closes, period, type, period - 1, Len(closes), <<>>)

\* bollingerSeriesStep with the signs of the two bands exchanged
bollingerSeriesStepSwapped(bs, closes, period, stdDev, i, result) ==
  LET slice == Slice(closes, i - period + 1, i + 1)
      sma == Div(Sum(slice), Num(period))
      std == Sqrt(varianceOf(slice, sma, period))
      time == dateOf(bs[i + 1])
  IN  [upper |-> Append(result.upper, [time |-> time, value |-> Sub(sma, Mul(stdDev, std))]),
       middle |-> Append(result.middle, [time |-> time, value |-> sma]),
       lower |-> Append(result.lower, [time |-> time, value |-> Add(sma, Mul(stdDev, std))])]

\* one pass of the loop body of generateBollingerBandsSeries for the 0-based index i
bollingerSeriesStep(bs, closes, period, stdDev, i, result) ==
  LET slice == Slice(closes, i - period + 1, i + 1)
      sma == Div(Sum(slice), Num(period))
      std == Sqrt(varianceOf(slice, sma, period))
      time == dateOf(bs[i + 1])
  IN  [upper |-> Append(result.upper, [time |-> time, value |-> Add(sma, Mul(stdDev, std))]),
       middle |-> Append(result.middle, [time |-> time, value |-> sma]),
       lower |-> Append(result.lower, [time |-> time, value |-> Sub(sma, Mul(stdDev, std))])]

\* the loop of generateBollingerBandsSeries over lo <= i < hi
RECURSIVE bollingerSeriesLoop(_, _, _, _, _, _, _)
bollingerSeriesLoop(bs, closes, period, stdDev, lo, hi, result) ==
  IF hi <= lo THEN result
  ELSE IF hi = lo + 1 THEN bollingerSeriesStep(bs, closes, period, stdDev, lo, result)
  ELSE LET mid == (lo + hi) \div 2
           left == bollingerSeriesLoop(bs, closes, period, stdDev, lo, mid, result)
       IN  IF Ready(left)
           THEN bollingerSeriesLoop(bs, closes, period, stdDev, mid, hi, left)
           ELSE left

generateBollingerBandsSeries(bs, period, stdDev) ==
  LET closes == closesOf(bs)
  IN  bollingerSeriesLoop(bs, closes, period, stdDev, period - 1, Len(closes),
                          [upper |-> <<>>, middle |-> <<>>, lower |-> <<>>])

\* const rs = avgLoss === 0 ? 100 : avgGain / avgLoss; value: 100 - 100 / (1 + rs)
rsiSeriesValue(avgGain, avgLoss) ==
  LET rs == IF Eq(avgLoss, Num(0)) THEN Num(100) ELSE Div(avgGain, avgLoss)
  IN  Sub(Num(100), Div(Num(100), Add(Num(1), rs)))

\* one pass of the second loop of generateRSISeries for the 0-based index i:
\* st holds avg = <<avgGain, avgLoss>> and the result so far
rsiSeriesStep(bs, closes, period, i, st) ==
  LET next == rsiSmooth(st.avg[1], st.avg[2], Sub(closes[i + 1], closes[i]), period)
  IN  [avg |-> next,
       result |-> Append(st.result, [time |-> dateOf(bs[i + 1]),
                                     value |-> rsiSeriesValue(next[1], next[2])])]

\* the second loop of generateRSISeries over lo <= i < hi
RECURSIVE rsiSeriesLoop(_, _, _, _, _, _)
rsiSeriesLoop(bs, closes, period, lo, hi, st) ==
  IF hi <= lo THEN st
  ELSE IF hi = lo + 1 THEN rsiSeriesStep(bs, closes, period, lo, st)
  ELSE LET mid == (lo + hi) \div 2
           left == rsiSeriesLoop(bs, closes, period, lo, mid, st)
       IN  IF Ready(left) THEN rsiSeriesLoop(bs, closes, period, mid, hi, left) ELSE left

\* generateRSISeries starting one bar late: its first point comes from the loop
generateRSISeriesLate(bs, period) ==
  LET closes == closesOf(bs)
  IN  IF Len(closes) < period + 1 THEN <<>>
      ELSE LET seed == rsiSeedLoop(closes, 1, period, Num(0), Num(0))
               avg == <<Div(seed[1], Num(period)), Div(seed[2], Num(period))>>
           IN  rsiSeriesLoop(bs, closes, period, period + 1, Len(closes),
                             [avg |-> avg, result |-> <<>>]).result

generateRSISeries(bs, period) ==
  LET closes == closesOf(bs)
  IN  IF Len(closes) < period + 1 THEN <<>>
      ELSE LET seed == rsiSeedLoop(closes, 1, period, Num(0), Num(0))
               avg == <<Div(seed[1], Num(period)), Div(seed[2], Num(period))>>
           IN  rsiSeriesLoop(bs, closes, period, period + 1, Len(closes),
                 [avg |-> avg,
                  result |-> <<[time |-> dateOf(bs[period + 1]),
                                value |-> rsiSeriesValue(avg[1], avg[2])]>>]).result

\* signalStep taking the histogram against the signal of the bar before
signalStepLagged(bs, macdValues, i, st) ==
  LET sig == emaStep(macdValues[i + 1], st.signal, Div(Num(2), Num(10)))
      time == dateOf(bs[i + MACDSlow + 1])
      histValue == Sub(macdValues[i + 1], st.signal)
  IN  [signal |-> sig,
       signalLine |-> Append(st.signalLine, [time |-> time, value |-> sig]),
       histogram |-> Append(st.histogram,
                            [time |-> time, value |-> histValue,
                             color |-> IF Ge(histValue, Num(0)) THEN "#26a69a"
                                       ELSE "#ef5350"])]

\* one pass of the signal loop of generateMACDSeries for the 0-based index i of
\* macdValues: st holds signal, signalLine and histogram
signalStep(bs, macdValues, i, st) ==
  LET sig == emaStep(macdValues[i + 1], st.signal, Div(Num(2), Num(10)))
      time == dateOf(bs[i + MACDSlow + 1])
      histValue == Sub(macdValues[i + 1], sig)
  IN  [signal |-> sig,
       signalLine |-> Append(st.signalLine, [time |-> time, value |-> sig]),
       histogram |-> Append(st.histogram,
                            [time |-> time, value |-> histValue,
                             color |-> IF Ge(histValue, Num(0)) THEN "#26a69a"
                                       ELSE "#ef5350"])]

\* the signal loop of generateMACDSeries over lo <= i < hi
RECURSIVE signalLoop(_, _, _, _, _)
signalLoop(bs, macdValues, lo, hi, st) ==
  IF hi <= lo THEN st
  ELSE IF hi = lo + 1 THEN signalStep(bs, macdValues, lo, st)
  ELSE LET mid == (lo + hi) \div 2
           left == signalLoop(bs, macdValues, lo, mid, st)
       IN  IF Ready(left) THEN signalLoop(bs, macdValues, mid, hi, left) ELSE left

generateMACDSeries(bs) ==
  LET closes == closesOf(bs)
      empty == [signal |-> Num(0), signalLine |-> <<>>, histogram |-> <<>>]
  IN  IF Len(closes) < MACDSlow
      THEN [macdLine |-> <<>>, signalLine |-> <<>>, histogram |-> <<>>]
      ELSE LET macdValues == macdValuesOf(closes)
               macdLine == Array([k \in 1..Len(macdValues) |->
                                    [time |-> dateOf(bs[k + MACDSlow]),
                                     value |-> macdValues[k]]])
               rest == IF Len(macdValues) >= MACDSignal
                       THEN signalLoop(bs, macdValues, MACDSignal - 1, Len(macdValues),
                              [empty EXCEPT !.signal =
                                 Div(Sum(Slice(macdValues, 0, MACDSignal)), Num(MACDSignal))])
                       ELSE empty
           IN  [macdLine |-> macdLine, signalLine |-> rest.signalLine,
                histogram |-> rest.histogram]

(***************************************************************************)
(* Backtest utilities                                                      *)
(***************************************************************************)
\* withDrawdown building the point from date and equity alone
withDrawdownOnly(point, drawdown) ==
  [date |-> point.date, equity |-> point.equity, drawdown |-> drawdown]

\* { ...point, drawdown }
withDrawdown(point, drawdown) ==
  [f \in DOMAIN point \cup {"drawdown"} |-> IF f = "drawdown" THEN drawdown ELSE point[f]]

\* drawdownOf with the decline taken relative to the point's own equity
drawdownOfEquity(point, peak) ==
  Mul(Div(Sub(point.equity, peak), point.equity), Num(100))

\* ((point.equity - peak) / peak) * 100
drawdownOf(point, peak) ==
  Mul(Div(Sub(point.equity, peak), peak), Num(100))

\* the callback of equityCurve.map in calculateDrawdownSeries, run on the points
\* from the 1-based index k: peak is the variable the callback updates
RECURSIVE drawdownMap(_, _, _, _)
drawdownMap(curve, k, peak, result) ==
  IF k > Len(curve) THEN result
  ELSE LET point == curve[k]
           newPeak == IF Gt(point.equity, peak) THEN point.equity ELSE peak
           drawdown == drawdownOf(point, newPeak)
       IN  drawdownMap(curve, k + 1, newPeak, Append(result, withDrawdown(point, drawdown)))

\* calculateDrawdownSeries measuring every point against the highest equity of
\* the whole curve
calculateDrawdownSeriesGlobalPeak(curve) ==
  IF Len(curve) = 0 THEN <<>>
  ELSE LET equities == {curve[k].equity : k \in 1..Len(curve)}
           peak == CHOOSE e \in equities : \A x \in equities : Ge(e, x)
       IN  drawdownMap(curve, 1, peak, <<>>)

calculateDrawdownSeries(curve) ==
  IF Len(curve) = 0 THEN <<>> ELSE drawdownMap(curve, 1, curve[1].equity, <<>>)

\* the simple returns of a window: slice.slice(1).map((p, idx) => ...)
rollingReturns(slice) ==
  IF Len(slice) <= 1 THEN <<>>
  ELSE Array([idx \in 1..(Len(slice) - 1) |->
                Div(Sub(slice[idx + 1].equity, slice[idx].equity), slice[idx].equity)])

\* rollingSharpe dividing whatever the volatility
rollingSharpeUnguarded(avgReturn, volatility) ==
  Div(Mul(avgReturn, Num(TradingDays)), Div(volatility, Num(100)))

\* volatility > 0 ? (avgReturn * 252) / (volatility / 100) : 0
rollingSharpe(avgReturn, volatility) ==
  IF Gt(volatility, Num(0))
  THEN Div(Mul(avgReturn, Num(TradingDays)), Div(volatility, Num(100)))
  ELSE Num(0)

\* rollingPoint taking its window one point later, the point i included
rollingPointInclusive(curve, window, i) ==
  LET slice == Slice(curve, i - window + 1, i + 1)
      returns == rollingReturns(slice)
      avgReturn == Div(Sum(returns), Num(Len(returns)))
      variance == varianceOf(returns, avgReturn, Len(returns))
      volatility == Mul(Mul(Sqrt(variance), Sqrt(Num(TradingDays))), Num(100))
  IN  [date |-> curve[i + 1].date, sharpe |-> rollingSharpe(avgReturn, volatility),
       volatility |-> volatility]

\* the body of the loop of calculateRollingMetrics for the 0-based index i: the
\* point pushed
rollingPoint(curve, window, i) ==
  LET slice == Slice(curve, i - window, i)
      returns == rollingReturns(slice)
      avgReturn == Div(Sum(returns), Num(Len(returns)))
      variance == varianceOf(returns, avgReturn, Len(returns))
      volatility == Mul(Mul(Sqrt(variance), Sqrt(Num(TradingDays))), Num(100))
  IN  [date |-> curve[i + 1].date, sharpe |-> rollingSharpe(avgReturn, volatility),
       volatility |-> volatility]

\* for (let i = ...; i < equityCurve.length; i++) result.push(...)
RECURSIVE rollingLoop(_, _, _, _)
rollingLoop(curve, window, i, result) ==
  IF i >= Len(curve) THEN result
  ELSE rollingLoop(curve, window, i + 1, Append(result, rollingPoint(curve, window, i)))

\* calculateRollingMetrics starting its loop one point late
calculateRollingMetricsLate(curve, window) ==
  IF Len(curve) < window THEN <<>> ELSE rollingLoop(curve, window, window + 1, <<>>)

calculateRollingMetrics(curve, window) ==
  IF Len(curve) < window THEN <<>> ELSE rollingLoop(curve, window, window, <<>>)

\* t.pnlPercent, undefined when the trade has none
pnlPercentOf(t) == IF "pnlPercent" \in DOMAIN t THEN t.pnlPercent ELSE Undefined

\* (t.pnlPercent || 0)
pnlOrZero(t) == IF Falsy(pnlPercentOf(t)) THEN Num(0) ELSE pnlPercentOf(t)

\* trades.filter(keep), keep given as the set of trades to keep
RECURSIVE filterTrades(_, _)
filterTrades(ts, keep) ==
  IF ts = <<>> THEN <<>>
  ELSE IF Head(ts) \in keep THEN <<Head(ts)>> \o filterTrades(Tail(ts), keep)
  ELSE filterTrades(Tail(ts), keep)

\* closedTradesOf keeping every closed trade, with or without pnlPercent
closedTradesAnyPnl(ts) ==
  filterTrades(ts, {t \in {ts[k] : k \in 1..Len(ts)} : t.status = "closed"})

\* trades.filter((t) => t.status === 'closed' && t.pnlPercent !== undefined)
closedTradesOf(ts) ==
  filterTrades(ts, {t \in {ts[k] : k \in 1..Len(ts)} :
                      t.status = "closed" /\ pnlPercentOf(t) # Undefined})

\* group.reduce((sum, t) => sum + (t.pnlPercent || 0), 0) / group.length, 0 for
\* an empty group
meanPnl(group) ==
  IF Len(group) > 0
  THEN Div(Sum(Array([k \in 1..Len(group) |-> pnlOrZero(group[k])])), Num(Len(group)))
  ELSE Num(0)

\* Math.min(...values) and Math.max(...values) of a non-empty array
RECURSIVE minOf(_)
minOf(values) ==
  IF Len(values) = 1 THEN values[1]
  ELSE LET rest == minOf(Tail(values))
       IN  IF IsNaN(values[1]) \/ IsNaN(rest) THEN NaN
           ELSE IF Lt(values[1], rest) THEN values[1] ELSE rest

RECURSIVE maxOf(_)
maxOf(values) ==
  IF Len(values) = 1 THEN values[1] ELSE MaxNum(values[1], maxOf(Tail(values)))

\* the decimal digits of the natural number n, as character codes
RECURSIVE digitsOf(_)
digitsOf(n) == IF n < 10 THEN <<48 + n>> ELSE Append(digitsOf(n \div 10), 48 + (n % 10))

\* x.toFixed(1) of a finite x, as character codes: the nearest number of
\* tenths (the larger one of two equally near), written sign, integer part,
\* '.', tenth
toFixed1(x) ==
  LET tenths == (2 * 10 * Abs(x[1]) + x[2]) \div (2 * x[2])
  IN  (IF x[1] < 0 THEN <<45>> ELSE <<>>) \o digitsOf(tenths \div 10) \o <<46, 48 + (tenths % 10)>>

\* the bin pushed by the loop of analyzeTradeDistribution for the index i
tradeBin(pnls, min, binSize, i) ==
  LET start == Add(min, Mul(Num(i), binSize))
      end == Add(start, binSize)
  IN  [range |-> toFixed1(start) \o <<37>>,
       count |-> Cardinality({k \in 1..Len(pnls) : Ge(pnls[k], start) /\ Lt(pnls[k], end)}),
       isPositive |-> Ge(start, Num(0))]

analyzeTradeDistribution(ts) ==
  LET closedTrades == closedTradesOf(ts)
  IN  IF Len(closedTrades) = 0
      THEN [bins |-> <<>>, winRate |-> Num(0), avgWin |-> Num(0), avgLoss |-> Num(0)]
      ELSE LET all == {closedTrades[k] : k \in 1..Len(closedTrades)}
               winners == filterTrades(closedTrades, {t \in all : Gt(pnlOrZero(t), Num(0))})
               losers == filterTrades(closedTrades, {t \in all : Le(pnlOrZero(t), Num(0))})
               pnls == Array([k \in 1..Len(closedTrades) |-> pnlOrZero(closedTrades[k])])
               min == minOf(pnls)
               max == maxOf(pnls)
               binSize == Div(Sub(max, min), Num(BinCount))
           IN  [bins |-> Array([j \in 1..BinCount |-> tradeBin(pnls, min, binSize, j - 1)]),
                winRate |-> Mul(Div(Num(Len(winners)), Num(Len(closedTrades))), Num(100)),
                avgWin |-> meanPnl(winners),
                avgLoss |-> meanPnl(losers)]

\* the metrics compared, in the order of the array metrics
comparedMetrics ==
  <<"totalReturn", "annualizedReturn", "sharpeRatio", "maxDrawdown", "winRate", "profitFactor">>

metricLabels ==
  [totalReturn |-> "Total Return (%)", annualizedReturn |-> "Annualized Return (%)",
   sharpeRatio |-> "Sharpe Ratio", maxDrawdown |-> "Max Drawdown (%)",
   winRate |-> "Win Rate (%)", profitFactor |-> "Profit Factor"]

higherIsBetter ==
  [totalReturn |-> TRUE, annualizedReturn |-> TRUE, sharpeRatio |-> TRUE,
   maxDrawdown |-> FALSE, winRate |-> TRUE, profitFactor |-> TRUE]

\* bestValueOf taking the value of the first strategy
bestValueFirst(metric, values) == values[1]

\* bestValueOf taking the least maxDrawdown
bestValueMinDrawdown(metric, values) ==
  IF higherIsBetter[metric] THEN maxOf(values) ELSE minOf(values)

\* bestValue: Math.max for a higher-is-better metric and for maxDrawdown,
\* Math.min otherwise
bestValueOf(metric, values) ==
  IF higherIsBetter[metric] THEN maxOf(values)
  ELSE IF metric = "maxDrawdown" THEN maxOf(values)
  ELSE minOf(values)

\* the row of one metric: the callback of metrics.map
comparisonRow(rs, metric) ==
  LET values == Array([k \in 1..Len(rs) |-> rs[k].metrics[metric]])
      bestValue == bestValueOf(metric, values)
  IN  [metric |-> metricLabels[metric],
       values |-> Array([k \in 1..Len(rs) |->
                           [name |-> rs[k].strategyName, value |-> values[k],
                            best |-> Eq(values[k], bestValue)]])]

compareBacktestMetrics(rs) ==
  IF Len(rs) = 0 THEN <<>>
  ELSE Array([m \in 1..Len(comparedMetrics) |-> comparisonRow(rs, comparedMetrics[m])])

(***************************************************************************)
(* Portfolio utilities                                                     *)
(***************************************************************************)
calculatePortfolioMetrics(ps) ==
  LET totalValue == Sum(Array([k \in 1..Len(ps) |-> ps[k].marketValue]))
      totalPnL == Sum(Array([k \in 1..Len(ps) |-> ps[k].unrealizedPnL]))
  IN  [totalValue |-> totalValue, totalPnL |-> totalPnL,
       totalPnLPercent |->
         IF Gt(totalValue, Num(0))
         THEN Mul(Div(totalPnL, Sub(totalValue, totalPnL)), Num(100))
         ELSE Num(0)]

\* the greatest integer not above the finite number a
FloorOf(a) == IF a[1] >= 0 THEN a[1] \div a[2] ELSE -((-a[1] + a[2] - 1) \div a[2])

\* Math.round: the nearest integer, the greater one of two equally near
MathRound(a) == IF a[2] = 0 THEN a ELSE Num(FloorOf(Add(a, Norm(1, 2))))

\* calculateDiversificationScore without the division by 1 - 1/n
calculateDiversificationScoreRaw(ps) ==
  IF Len(ps) = 0 THEN Num(0)
  ELSE IF Len(ps) = 1 THEN Num(0)
  ELSE LET hhi == Sum(Array([k \in 1..Len(ps) |->
                               Mul(Div(ps[k].allocation, Num(100)),
                                   Div(ps[k].allocation, Num(100)))]))
       IN  MathRound(Mul(Sub(Num(1), hhi), Num(100)))

calculateDiversificationScore(ps) ==
  IF Len(ps) = 0 THEN Num(0)
  ELSE IF Len(ps) = 1 THEN Num(0)
  ELSE LET hhi == Sum(Array([k \in 1..Len(ps) |->
                               Mul(Div(ps[k].allocation, Num(100)),
                                   Div(ps[k].allocation, Num(100)))]))
           maxDiversification == Div(Num(1), Num(Len(ps)))
       IN  MathRound(Mul(Div(Sub(Num(1), hhi), Sub(Num(1), maxDiversification)), Num(100)))

(***************************************************************************)
(* The event stream hook useSSE                                            *)
(***************************************************************************)
\* eventSourceRef.current === null
NoSource == 0

\* url === null, and the url of a stream
NoUrl == ""

StreamUrl == "/api/stream"

\* error === null, progress === null, and no call of onError so far
NoError == ""

NoProgress == ""

\* the state after the first render: useState(false), useState(null),
\* useRef(null), useRef(0)
hookInit(u) ==
  /\ url = u
  /\ eventSourceRef = NoSource
  /\ retriesRef = 0
  /\ isConnected = FALSE
  /\ error = NoError
  /\ progress = NoProgress
  /\ sources = <<>>
  /\ timers = <<>>
  /\ reported = NoError
  /\ stopped = FALSE
  /\ handler = "none"
  /\ mounted = TRUE

\* eventSourceRef.current.close(), if there is a current EventSource, on the
\* readyStates srcs
closeCurrent(srcs) ==
  IF eventSourceRef # NoSource THEN [srcs EXCEPT ![eventSourceRef] = "closed"] ELSE srcs

\* the body of disconnect(), on the readyStates srcs
disconnect(srcs) ==
  /\ sources' = closeCurrent(srcs)
  /\ eventSourceRef' = NoSource
  /\ isConnected' = IF eventSourceRef # NoSource THEN FALSE ELSE isConnected

\* the body of connect() for a url that is set: disconnect(), setError(null),
\* new EventSource(url)
connect ==
  /\ Len(sources) < MaxSources
  /\ sources' = Append(closeCurrent(sources), "connecting")
  /\ eventSourceRef' = Len(sources) + 1
  /\ isConnected' = IF eventSourceRef # NoSource THEN FALSE ELSE isConnected
  /\ error' = NoError

(***************************************************************************)
(* Inputs                                                                  *)
(***************************************************************************)
\* the ISO timestamp of the bar of day i: three digits, 'T', one digit
Timestamp(i) ==
  <<Char0 + ((i \div 100) % 10), Char0 + ((i \div 10) % 10), Char0 + (i % 10), CharT, Char0>>

Bar(i, c) ==
  [timestamp |-> Timestamp(i), open |-> Num(c), high |-> Num(c + 1),
   low |-> Num(c - 1), close |-> Num(c), volume |-> 0]

\* every bar sequence of at most MaxLen bars with closes in 1..MaxClose
ShortBars ==
  UNION {{[i \in 1..n |-> Bar(i, cs[i])] : cs \in [1..n -> 1..MaxClose]} : n \in 0..MaxLen}

\* n bars closing at FlatClose, the last but one moved by -d and the last by d
TailBars(n, d) ==
  [i \in 1..n |-> Bar(i, IF i = n THEN FlatClose + d
                         ELSE IF i = n - 1 THEN FlatClose - d ELSE FlatClose)]

LongBars == {TailBars(n, d) : n \in (MaxLen + 1)..MaxBars, d \in -MaxTail..MaxTail}

Periods == 1..MaxPeriod

\* the equity point of day i; the points of odd days carry a benchmark
EquityPoint(i, e) ==
  IF i % 2 = 1 THEN [date |-> Timestamp(i), equity |-> Num(e), benchmark |-> Num(i)]
  ELSE [date |-> Timestamp(i), equity |-> Num(e)]

\* every equity curve of at most MaxCurveLen points with equity in
\* -MaxEquity..MaxEquity
Curves ==
  UNION {{[i \in 1..n |-> EquityPoint(i, es[i])] : es \in [1..n -> -MaxEquity..MaxEquity]} :
         n \in 0..MaxCurveLen}

\* every equity curve of n points with equity in 0..MaxRollEquity
RollCurves(n) ==
  {[i \in 1..n |-> EquityPoint(i, es[i])] : es \in [1..n -> 0..MaxRollEquity]}

\* the trade of index i: open or closed, with pnlPercent pnl or, for pnl beyond
\* MaxPnl, without pnlPercent
Trade(i, status, pnl) ==
  IF pnl > MaxPnl THEN [id |-> i, status |-> status]
  ELSE [id |-> i, status |-> status, pnlPercent |-> Num(pnl)]

\* every list of n trades
TradeLists(n) ==
  {[i \in 1..n |-> Trade(i, st[i], pn[i])] :
     st \in [1..n -> {"open", "closed"}], pn \in [1..n -> -MaxPnl..(MaxPnl + 1)]}

\* the result of strategy i, its metrics spread from the return a and the
\* drawdown d: the Sharpe ratio falls as the return rises, the profit factors
\* are all equal
BacktestResult(i, a, d) ==
  [id |-> i, strategyName |-> <<83>> \o digitsOf(i),
   metrics |-> [totalReturn |-> Num(a), annualizedReturn |-> Num(2 * a),
                sharpeRatio |-> Num(-a), maxDrawdown |-> Num(d), winRate |-> Num(a % 2),
                profitFactor |-> Num(1)]]

\* every list of n results
ResultLists(n) ==
  {[i \in 1..n |-> BacktestResult(i, as[i], ds[i])] :
     as \in [1..n -> -MaxMetric..MaxMetric], ds \in [1..n -> -MaxDrawdown..1]}

\* the position of index i
Position(i, marketValue, unrealizedPnL, allocation) ==
  [id |-> i, symbol |-> <<80>> \o digitsOf(i), marketValue |-> Num(marketValue),
   unrealizedPnL |-> Num(unrealizedPnL), allocation |-> allocation]

\* the lists of n positions that vary marketValue and unrealizedPnL
ValueLists(n) ==
  {[i \in 1..n |-> Position(i, mv[i], pl[i], Norm(100, n))] :
     mv \in [1..n -> -MaxValue..MaxValue], pl \in [1..n -> -MaxValue..MaxValue]}

\* the lists of n positions that vary the allocation over the multiples of
\* 100/AllocationParts in 0..100
AllocationLists(n) ==
  {[i \in 1..n |-> Position(i, 1, 0, Norm(100 * al[i], AllocationParts))] :
     al \in [1..n -> 0..AllocationParts]}

\* n positions of allocation 100/n each
EqualList(n) == [i \in 1..n |-> Position(i, 1, 0, Norm(100, n))]

\* the concentrated portfolio of the tests: 80, 10, 5, 5
ConcentratedList ==
  LET al == <<80, 10, 5, 5>> IN [i \in 1..4 |-> Position(i, 1, 0, Num(al[i]))]

NoCall == [fn |-> "none", period |-> 0, type |-> "", stdDev |-> 0, window |-> 0]

Init ==
  /\ bars \in ShortBars \cup LongBars
  /\ equityCurve = <<>>
  /\ trades = <<>>
  /\ results = <<>>
  /\ positions = <<>>
  /\ call = NoCall
  /\ ret = Undefined
  /\ hookInit(NoUrl)

(***************************************************************************)
(* Operations: one call of a function on the data at hand                  *)
(***************************************************************************)
CallCalculateIndicators ==
  /\ call = NoCall
  /\ call' = [NoCall EXCEPT !.fn = "calculateIndicators"]
  /\ ret' = calculateIndicators(bars)
  /\ UNCHANGED <<bars, equityCurve, trades, results, positions, hook>>

CallCalculateSMA ==
  \E p \in Periods :
    /\ call = NoCall /\ Len(bars) <= MaxLen
    /\ call' = [NoCall EXCEPT !.fn = "calculateSMA", !.period = p]
    /\ ret' = calculateSMA(closesOf(bars), p)
    /\ UNCHANGED <<bars, equityCurve, trades, results, positions, hook>>

CallCalculateEMA ==
  \E p \in Periods :
    /\ call = NoCall /\ Len(bars) <= MaxLen
    /\ call' = [NoCall EXCEPT !.fn = "calculateEMA", !.period = p]
    /\ ret' = calculateEMA(closesOf(bars), p)
    /\ UNCHANGED <<bars, equityCurve, trades, results, positions, hook>>

CallCalculateRSI ==
  \E p \in Periods :
    /\ call = NoCall /\ Len(bars) <= MaxLen
    /\ call' = [NoCall EXCEPT !.fn = "calculateRSI", !.period = p]
    /\ ret' = calculateRSI(closesOf(bars), p)
    /\ UNCHANGED <<bars, equityCurve, trades, results, positions, hook>>

CallGenerateIndicatorSeries ==
  \E p \in Periods, t \in {"sma", "ema"} :
    /\ call = NoCall /\ Len(bars) <= MaxLen
    /\ call' = [NoCall EXCEPT !.fn = "generateIndicatorSeries", !.period = p, !.type = t]
    /\ ret' = generateIndicatorSeries(bars, p, t)
    /\ UNCHANGED <<bars, equityCurve, trades, results, positions, hook>>

CallGenerateBollingerBandsSeries ==
  \E p \in Periods, sd \in 1..MaxStdDev :
    /\ call = NoCall /\ Len(bars) <= MaxLen
    /\ call' = [NoCall EXCEPT !.fn = "generateBollingerBandsSeries", !.period = p,
                              !.stdDev = sd]
    /\ ret' = generateBollingerBandsSeries(bars, p, Num(sd))
    /\ UNCHANGED <<bars, equityCurve, trades, results, positions, hook>>

CallGenerateRSISeries ==
  \E p \in Periods :
    /\ call = NoCall /\ Len(bars) <= MaxLen
    /\ call' = [NoCall EXCEPT !.fn = "generateRSISeries", !.period = p]
    /\ ret' = generateRSISeries(bars, p)
    /\ UNCHANGED <<bars, equityCurve, trades, results, positions, hook>>

CallGenerateMACDSeries ==
  /\ call = NoCall
  /\ call' = [NoCall EXCEPT !.fn = "generateMACDSeries"]
  /\ ret' = generateMACDSeries(bars)
  /\ UNCHANGED <<bars, equityCurve, trades, results, positions, hook>>

Next ==
  \/ CallCalculateIndicators
  \/ CallCalculateSMA
  \/ CallCalculateEMA
  \/ CallCalculateRSI
  \/ CallGenerateIndicatorSeries
  \/ CallGenerateBollingerBandsSeries
  \/ CallGenerateRSISeries
  \/ CallGenerateMACDSeries

Spec == Init /\ [][Next]_vars

InitBacktest ==
  /\ bars = <<>>
  /\ equityCurve \in Curves
  /\ trades = <<>>
  /\ results = <<>>
  /\ positions = <<>>
  /\ call = NoCall
  /\ ret = Undefined
  /\ hookInit(NoUrl)

CallCalculateDrawdownSeries ==
  /\ call = NoCall
  /\ call' = [NoCall EXCEPT !.fn = "calculateDrawdownSeries"]
  /\ ret' = calculateDrawdownSeries(equityCurve)
  /\ UNCHANGED <<bars, equityCurve, trades, results, positions, hook>>

NextBacktest == CallCalculateDrawdownSeries

SpecBacktest == InitBacktest /\ [][NextBacktest]_vars

InitRolling ==
  /\ bars = <<>>
  /\ \E n \in 0..MaxRollLen : equityCurve \in RollCurves(n)
  /\ trades = <<>>
  /\ results = <<>>
  /\ positions = <<>>
  /\ call = NoCall
  /\ ret = Undefined
  /\ hookInit(NoUrl)

CallCalculateRollingMetrics ==
  \E w \in 0..MaxWindow :
    /\ call = NoCall
    /\ call' = [NoCall EXCEPT !.fn = "calculateRollingMetrics", !.window = w]
    /\ ret' = calculateRollingMetrics(equityCurve, w)
    /\ UNCHANGED <<bars, equityCurve, trades, results, positions, hook>>

NextRolling == CallCalculateRollingMetrics

SpecRolling == InitRolling /\ [][NextRolling]_vars

InitTrades ==
  /\ bars = <<>>
  /\ equityCurve = <<>>
  /\ \E n \in 0..MaxTrades : trades \in TradeLists(n)
  /\ results = <<>>
  /\ positions = <<>>
  /\ call = NoCall
  /\ ret = Undefined
  /\ hookInit(NoUrl)

CallAnalyzeTradeDistribution ==
  /\ call = NoCall
  /\ call' = [NoCall EXCEPT !.fn = "analyzeTradeDistribution"]
  /\ ret' = analyzeTradeDistribution(trades)
  /\ UNCHANGED <<bars, equityCurve, trades, results, positions, hook>>

NextTrades == CallAnalyzeTradeDistribution

SpecTrades == InitTrades /\ [][NextTrades]_vars

InitCompare ==
  /\ bars = <<>>
  /\ equityCurve = <<>>
  /\ trades = <<>>
  /\ \E n \in 0..MaxResults : results \in ResultLists(n)
  /\ positions = <<>>
  /\ call = NoCall
  /\ ret = Undefined
  /\ hookInit(NoUrl)

CallCompareBacktestMetrics ==
  /\ call = NoCall
  /\ call' = [NoCall EXCEPT !.fn = "compareBacktestMetrics"]
  /\ ret' = compareBacktestMetrics(results)
  /\ UNCHANGED <<bars, equityCurve, trades, results, positions, hook>>

NextCompare == CallCompareBacktestMetrics

SpecCompare == InitCompare /\ [][NextCompare]_vars

InitPortfolio ==
  /\ bars = <<>>
  /\ equityCurve = <<>>
  /\ trades = <<>>
  /\ results = <<>>
  /\ \/ \E n \in 0..MaxHoldings : positions \in ValueLists(n)
     \/ \E n \in 0..MaxPositions : positions \in AllocationLists(n)
     \/ \E n \in 1..MaxEqual : positions = EqualList(n)
     \/ positions = ConcentratedList
  /\ call = NoCall
  /\ ret = Undefined
  /\ hookInit(NoUrl)

CallCalculatePortfolioMetrics ==
  /\ call = NoCall
  /\ call' = [NoCall EXCEPT !.fn = "calculatePortfolioMetrics"]
  /\ ret' = calculatePortfolioMetrics(positions)
  /\ UNCHANGED <<bars, equityCurve, trades, results, positions, hook>>

CallCalculateDiversificationScore ==
  /\ call = NoCall
  /\ call' = [NoCall EXCEPT !.fn = "calculateDiversificationScore"]
  /\ ret' = calculateDiversificationScore(positions)
  /\ UNCHANGED <<bars, equityCurve, trades, results, positions, hook>>

NextPortfolio ==
  \/ CallCalculatePortfolioMetrics
  \/ CallCalculateDiversificationScore

SpecPortfolio == InitPortfolio /\ [][NextPortfolio]_vars

\* the generators of chart series, called on bars or on an equity curve
InitHistory ==
  /\ \/ bars \in ShortBars \cup LongBars /\ equityCurve = <<>>
     \/ bars = <<>> /\ \E n \in 1..MaxRollLen : equityCurve \in RollCurves(n)
  /\ trades = <<>>
  /\ results = <<>>
  /\ positions = <<>>
  /\ call = NoCall
  /\ ret = Undefined
  /\ hookInit(NoUrl)

NextHistory ==
  \/ CallGenerateIndicatorSeries
  \/ CallGenerateBollingerBandsSeries
  \/ CallGenerateRSISeries
  \/ CallGenerateMACDSeries
  \/ CallCalculateDrawdownSeries
  \/ CallCalculateRollingMetrics

SpecHistory == InitHistory /\ [][NextHistory]_vars

(***************************************************************************)
(* Operations of useSSE: the calls of the component, the timers and the    *)
(* events of the EventSource objects.  A handler runs to its end before    *)
(* the next one starts, and a state setter takes effect at once.  An       *)
(* EventSource that was closed dispatches no event.  The callbacks of the  *)
(* options are taken not to call back into the hook.                       *)
(***************************************************************************)
InitSSE ==
  /\ bars = <<>>
  /\ equityCurve = <<>>
  /\ trades = <<>>
  /\ results = <<>>
  /\ positions = <<>>
  /\ call = NoCall
  /\ ret = Undefined
  /\ \E u \in {NoUrl, StreamUrl} : hookInit(u)

\* the component calls connect()
CallConnect ==
  /\ mounted
  /\ handler' = "connect"
  /\ IF url = NoUrl
     THEN UNCHANGED <<sources, eventSourceRef, isConnected, error, stopped>>
     ELSE connect /\ stopped' = FALSE
  /\ UNCHANGED <<url, retriesRef, progress, timers, reported, mounted, analytics>>

\* the component calls disconnect()
CallDisconnect ==
  /\ mounted
  /\ disconnect(sources)
  /\ stopped' = TRUE
  /\ handler' = "disconnect"
  /\ UNCHANGED <<url, retriesRef, error, progress, timers, reported, mounted, analytics>>

\* the cleanup of the effect: the component unmounts
Unmount ==
  /\ mounted
  /\ disconnect(sources)
  /\ mounted' = FALSE
  /\ stopped' = TRUE
  /\ handler' = "unmount"
  /\ UNCHANGED <<url, retriesRef, error, progress, timers, reported, analytics>>

\* a pending setTimeout callback runs: connect()
TimerFires ==
  \E k \in 1..Len(timers) :
    /\ connect
    /\ timers' = SubSeq(timers, 1, k - 1) \o SubSeq(timers, k + 1, Len(timers))
    /\ handler' = "timer"
    /\ UNCHANGED <<url, retriesRef, progress, reported, stopped, mounted, analytics>>

\* eventSource.onopen of the EventSource id
onopen(id) ==
  /\ sources[id] = "connecting"
  /\ sources' = [sources EXCEPT ![id] = "open"]
  /\ isConnected' = TRUE
  /\ retriesRef' = 0
  /\ handler' = "onopen"
  /\ UNCHANGED <<url, eventSourceRef, error, progress, timers, reported, stopped, mounted,
                 analytics>>

\* eventSource.onmessage of the EventSource id for an event of the given type;
\* "garbage" is a text that JSON.parse rejects
onmessage(id, type) ==
  /\ sources[id] = "open"
  /\ handler' = "onmessage"
  /\ CASE type = "progress" ->
            /\ progress' = "progress"
            /\ UNCHANGED <<sources, eventSourceRef, isConnected, error, reported, stopped>>
       [] type = "complete" ->
            /\ disconnect(sources)
            /\ stopped' = TRUE
            /\ UNCHANGED <<error, progress, reported>>
       [] type = "error" ->
            /\ error' = "server error"
            /\ reported' = "server error"
            /\ disconnect(sources)
            /\ stopped' = TRUE
            /\ UNCHANGED progress
       [] OTHER ->
            UNCHANGED <<sources, eventSourceRef, isConnected, error, progress, reported,
                        stopped>>
  /\ UNCHANGED <<url, retriesRef, timers, mounted, analytics>>

\* the first branch of eventSource.onerror: count the retry and schedule
\* connect(); state is the readyState the browser left the EventSource in
retry(id, state) ==
  /\ Len(timers) < MaxTimers
  /\ retriesRef' = retriesRef + 1
  /\ timers' = Append(timers, retryDelay * (retriesRef + 1))
  /\ sources' = [sources EXCEPT ![id] = state]
  /\ isConnected' = FALSE
  /\ UNCHANGED <<eventSourceRef, error, reported, stopped>>

\* the second branch of eventSource.onerror
giveUp(id, state) ==
  /\ error' = "Connection lost. Please refresh the page."
  /\ reported' = "Connection lost"
  /\ sources' = closeCurrent([sources EXCEPT ![id] = state])
  /\ eventSourceRef' = NoSource
  /\ isConnected' = FALSE
  /\ stopped' = TRUE
  /\ UNCHANGED <<retriesRef, timers>>

\* onerror retrying whatever the counter
onerrorAlwaysRetries(id) ==
  /\ sources[id] \in {"connecting", "open"}
  /\ handler' = "onerror"
  /\ \E state \in {"connecting", "closed"} : retry(id, state)
  /\ UNCHANGED <<url, progress, mounted, analytics>>

\* eventSource.onerror of the EventSource id: the browser either retries the
\* connection itself (readyState CONNECTING) or has failed it (CLOSED)
onerror(id) ==
  /\ sources[id] \in {"connecting", "open"}
  /\ handler' = "onerror"
  /\ \E state \in {"connecting", "closed"} :
       IF retriesRef < retryCount THEN retry(id, state) ELSE giveUp(id, state)
  /\ UNCHANGED <<url, progress, mounted, analytics>>

NextSSE ==
  \/ CallConnect
  \/ CallDisconnect
  \/ Unmount
  \/ TimerFires
  \/ \E id \in 1..Len(sources) : onopen(id)
  \/ \E id \in 1..Len(sources),
        type \in {"progress", "partial_result", "complete", "error", "garbage"} :
       onmessage(id, type)
  \/ \E id \in 1..Len(sources) : onerror(id)

SpecSSE == InitSSE /\ [][NextSSE]_vars

(***************************************************************************)
(* Claims                                                                  *)
(***************************************************************************)
IsUndefined(v) == DOMAIN v = {}

\* a finite number: neither undefined nor NaN nor an infinity
DefinedNumber(v) == ~IsUndefined(v) /\ DOMAIN v = {1, 2} /\ v[2] > 0

\* an object whose fields are all finite numbers
DefinedObject(v, fields) == DOMAIN v = fields /\ \A f \in fields : DefinedNumber(v[f])

\* C1: for n >= 1 bars every field of calculateIndicators is a finite number
\* exactly when its minimum history is met (sma20: 20, sma50: 50, sma200: 200,
\* ema12: 12, ema26: 26, rsi: 15, macd: 26, bollingerBands: 20, atr: 15) and is
\* undefined otherwise; for no bars the result has no fields.
C1_IndicatorsDefinedIffHistory ==
  call.fn = "calculateIndicators" =>
    LET n == Len(bars)
        Scalar(f, min) == IF n >= min THEN DefinedNumber(ret[f]) ELSE IsUndefined(ret[f])
    IN  IF n = 0 THEN DOMAIN ret = {}
        ELSE /\ DOMAIN ret = IndicatorFields
             /\ Scalar("sma20", 20) /\ Scalar("sma50", 50) /\ Scalar("sma200", 200)
             /\ Scalar("ema12", 12) /\ Scalar("ema26", 26)
             /\ Scalar("rsi", 15) /\ Scalar("atr", 15)
             /\ IF n >= 26 THEN DefinedObject(ret.macd, {"macd", "signal", "histogram"})
                ELSE IsUndefined(ret.macd)
             /\ IF n >= 20
                THEN DefinedObject(ret.bollingerBands, {"upper", "middle", "lower"})
                ELSE IsUndefined(ret.bollingerBands)

\* calculateIndicators has run on exactly 200 bars, the last two of which moved:
\* sma200 has just become defined
C1_Witness ==
  /\ call.fn = "calculateIndicators" /\ Len(bars) = 200
  /\ bars[200].close # bars[199].close
  /\ DefinedNumber(ret.sma200) /\ DefinedNumber(ret.macd.signal)

\* the sum of the integer closes data[from..to] (1-based, inclusive)
RECURSIVE PlainSum(_, _, _)
PlainSum(data, from, to) ==
  IF from > to THEN 0 ELSE data[to][1] + PlainSum(data, from, to - 1)

\* the arithmetic mean of data[from..to]
MeanOf(data, from, to) == Norm(PlainSum(data, from, to), to - from + 1)

\* C2: calculateSMA(s, p) is the arithmetic mean of the last p elements of s
\* when len(s) >= p, and undefined (not zero) when len(s) < p.
C2_SMAIsMeanOfLast ==
  call.fn = "calculateSMA" =>
    LET s == closesOf(bars)
        p == call.period
    IN  IF Len(s) >= p THEN ret = MeanOf(s, Len(s) - p + 1, Len(s))
        ELSE IsUndefined(ret) /\ ret # Num(0)

\* calculateSMA has run on a series longer than the period whose first and last
\* windows have different means
C2_Witness ==
  /\ call.fn = "calculateSMA" /\ Len(bars) > call.period
  /\ DefinedNumber(ret)
  /\ ret # MeanOf(closesOf(bars), 1, call.period)

\* the value the recurrence of the EMA gives at the 0-based index i >= p - 1
RECURSIVE EmaAt(_, _, _)
EmaAt(data, p, i) ==
  IF i = p - 1 THEN MeanOf(data, 1, p)
  ELSE LET prev == EmaAt(data, p, i - 1)
       IN  Add(Mul(Sub(data[i + 1], prev), Norm(2, p + 1)), prev)

\* C3: for len >= period calculateEMA is the seed (the mean of the first period
\* elements) taken through ema_i = (x_i - ema_{i-1}) * 2/(period+1) + ema_{i-1}
\* for i = period..len-1; for len = period it is the seed; for len < period it
\* is undefined.
C3_EMAIsSeededRecurrence ==
  call.fn = "calculateEMA" =>
    LET s == closesOf(bars)
        p == call.period
    IN  /\ Len(s) >= p => ret = EmaAt(s, p, Len(s) - 1)
        /\ Len(s) = p => ret = MeanOf(s, 1, p)
        /\ Len(s) < p => IsUndefined(ret)

\* calculateEMA has run the recurrence at least twice on closes that differ and
\* its value is neither the seed nor the last close
C3_Witness ==
  /\ call.fn = "calculateEMA" /\ Len(bars) >= call.period + 2
  /\ DefinedNumber(ret)
  /\ ret # MeanOf(closesOf(bars), 1, call.period)
  /\ ret # bars[Len(bars)].close

InRange(v) == Ge(v, Num(0)) /\ Le(v, Num(100))

\* C4: every RSI value lies in [0, 100]: the result of calculateRSI on at least
\* period + 1 closes, the rsi of calculateIndicators, and every point of
\* generateRSISeries.
C4_RSIWithin0And100 ==
  /\ call.fn = "calculateRSI" /\ Len(bars) >= call.period + 1 => InRange(ret)
  /\ call.fn = "calculateIndicators" /\ Len(bars) >= RSIPeriod + 1 => InRange(ret.rsi)
  /\ call.fn = "generateRSISeries" => \A k \in 1..Len(ret) : InRange(ret[k].value)

\* generateRSISeries has produced at least two points, one strictly inside
\* (0, 100), from closes that rose and fell
C4_Witness ==
  /\ call.fn = "generateRSISeries" /\ Len(ret) >= 2
  /\ \E k \in 2..Len(ret) : Gt(ret[k].value, Num(0)) /\ Lt(ret[k].value, Num(100))
  /\ \E k \in 2..Len(bars) : Lt(bars[k].close, bars[k - 1].close)

StrictlyIncreasing(data) == \A k \in 2..Len(data) : Lt(data[k - 1], data[k])

\* C5: calculateRSI returns exactly 100 whenever the smoothed average loss is 0
\* after the last element, in particular on every strictly increasing series of
\* at least period + 1 closes, and its result is never the NaN or infinity of
\* a division by a zero average loss.
C5_RSIHundredOnZeroLoss ==
  /\ call.fn = "calculateRSI" /\ Len(bars) >= call.period + 1 =>
       LET s == closesOf(bars)
       IN  /\ rsiAverages(s, call.period)[2] = Num(0) => ret = Num(100)
           /\ StrictlyIncreasing(s) => ret = Num(100)
           /\ DefinedNumber(ret)
  /\ call.fn = "calculateIndicators" /\ Len(bars) >= RSIPeriod + 1 =>
       /\ (\A k \in 2..Len(bars) : Le(bars[k - 1].close, bars[k].close)) => ret.rsi = Num(100)
       /\ DefinedNumber(ret.rsi)

\* calculateRSI has run on flat closes (no gain and no loss, so the unguarded
\* quotient would be 0/0) past the seed window
C5_Witness ==
  /\ call.fn = "calculateRSI" /\ Len(bars) >= call.period + 2
  /\ \A k \in 2..Len(bars) : bars[k].close = bars[k - 1].close
  /\ ret = Num(100)

\* C6: at every point k of generateBollingerBandsSeries with stdDev > 0:
\* upper >= middle >= lower, middle is the mean of the period closes ending at
\* that bar, upper - middle = middle - lower, and upper = middle only when all
\* closes of that window are equal.
C6_BollingerBandsOrdered ==
  call.fn = "generateBollingerBandsSeries" =>
    LET s == closesOf(bars)
        p == call.period
    IN  \A k \in 1..Len(ret.middle) :
          LET last == p - 1 + k
              upper == ret.upper[k].value
              middle == ret.middle[k].value
              lower == ret.lower[k].value
          IN  /\ Ge(upper, middle) /\ Ge(middle, lower)
              /\ middle = MeanOf(s, last - p + 1, last)
              /\ Sub(upper, middle) = Sub(middle, lower)
              /\ upper = middle => \A j \in (last - p + 1)..last : s[j] = s[last]

\* generateBollingerBandsSeries has produced a point with upper > middle and a
\* point with upper = middle
C6_Witness ==
  /\ call.fn = "generateBollingerBandsSeries" /\ call.period >= 2
  /\ \E k \in 1..Len(ret.upper) : Gt(ret.upper[k].value, ret.middle[k].value)
  /\ \E k \in 1..Len(ret.upper) : ret.upper[k].value = ret.middle[k].value

\* C7: in the result of generateMACDSeries signalLine and histogram have the
\* same length L, L = macdLine.length - 8 when macdLine.length >= 9 and 0
\* otherwise; for every k < L, histogram[k].value = macdLine[k + 8].value -
\* signalLine[k].value and the three points carry the same time.
C7_MACDHistogramIsDifference ==
  call.fn = "generateMACDSeries" =>
    LET m == Len(ret.macdLine)
        L == IF m >= 9 THEN m - 8 ELSE 0
    IN  /\ Len(ret.signalLine) = L /\ Len(ret.histogram) = L
        /\ \A k \in 1..L :
             /\ ret.histogram[k].value =
                  Sub(ret.macdLine[k + 8].value, ret.signalLine[k].value)
             /\ ret.macdLine[k + 8].time = ret.signalLine[k].time
             /\ ret.signalLine[k].time = ret.histogram[k].time

\* generateMACDSeries has produced at least two histogram points, the last one
\* not zero
C7_Witness ==
  /\ call.fn = "generateMACDSeries" /\ Len(ret.histogram) >= 2
  /\ ret.histogram[Len(ret.histogram)].value # Num(0)
  /\ ret.signalLine[Len(ret.signalLine)].value # Num(0)

Max0(x) == IF x < 0 THEN 0 ELSE x

\* the date part of the timestamp of day i: its three digits
DatePart(i) == SubSeq(Timestamp(i), 1, 3)

\* the k-th point of a series of m points over n bars is tagged with the date of
\* bar n - m + k
TaggedInOrder(series, n) ==
  \A k \in 1..Len(series) : series[k].time = DatePart(n - Len(series) + k)

\* C8: with n bars and period p >= 1, generateIndicatorSeries and each band of
\* generateBollingerBandsSeries hold max(0, n - p + 1) points, generateRSISeries
\* max(0, n - p) and the macdLine of generateMACDSeries max(0, n - 26); the
\* k-th point of a series of m points carries the date part of the timestamp
\* of bar n - m + k.
C8_SeriesLengthsAndDates ==
  LET n == Len(bars)
      p == call.period
  IN  /\ call.fn = "generateIndicatorSeries" =>
           Len(ret) = Max0(n - p + 1) /\ TaggedInOrder(ret, n)
      /\ call.fn = "generateBollingerBandsSeries" =>
           \A band \in {"upper", "middle", "lower"} :
             Len(ret[band]) = Max0(n - p + 1) /\ TaggedInOrder(ret[band], n)
      /\ call.fn = "generateRSISeries" =>
           Len(ret) = Max0(n - p) /\ TaggedInOrder(ret, n)
      /\ call.fn = "generateMACDSeries" =>
           Len(ret.macdLine) = Max0(n - 26) /\ TaggedInOrder(ret.macdLine, n)

\* generateRSISeries has produced more than one point and fewer than there are
\* bars
C8_Witness ==
  /\ call.fn = "generateRSISeries" /\ call.period >= 2
  /\ Len(ret) >= 2 /\ Len(ret) < Len(bars)
  /\ ret[1].time = DatePart(call.period + 1)

\* C9: for every non-empty equity curve passed to calculateDrawdownSeries,
\* with equity values of any sign, every emitted point has drawdown <= 0.
C9_DrawdownNeverPositive ==
  call.fn = "calculateDrawdownSeries" =>
    \A k \in 1..Len(ret) : Le(ret[k].drawdown, Num(0))

\* the greatest of equity[1..i], found without the running variable
RunningMax(curve, i) ==
  CHOOSE m \in {curve[j].equity : j \in 1..i} :
    \A j \in 1..i : Le(curve[j].equity, m)

\* C10: calculateDrawdownSeries emits, at every index i, drawdown[i] =
\* (equity[i] - peak) / peak * 100 with peak the maximum of equity[0..i];
\* the drawdown is exactly 0 at index 0 and at every index whose equity is a
\* new running maximum (the equity there not being 0), and strictly negative
\* at every index whose equity is below a positive running peak.
C10_DrawdownFromRunningPeak ==
  call.fn = "calculateDrawdownSeries" =>
    /\ Len(ret) = Len(equityCurve)
    /\ \A i \in 1..Len(ret) :
         LET equity == equityCurve[i].equity
             peak == RunningMax(equityCurve, i)
             newMaximum == i = 1 \/ Gt(equity, RunningMax(equityCurve, i - 1))
         IN  /\ ret[i].drawdown = Mul(Div(Sub(equity, peak), peak), Num(100))
             /\ newMaximum /\ equity # Num(0) => ret[i].drawdown = Num(0)
             /\ Lt(equity, peak) /\ Gt(peak, Num(0)) => Lt(ret[i].drawdown, Num(0))

\* calculateDrawdownSeries has run on positive equities that set a peak, fell
\* below it and then set a new one
C10_Witness ==
  /\ call.fn = "calculateDrawdownSeries" /\ Len(ret) >= 3
  /\ \A i \in 1..Len(equityCurve) : Gt(equityCurve[i].equity, Num(0))
  /\ \E i \in 2..(Len(ret) - 1) :
       /\ Lt(ret[i].drawdown, Num(0))
       /\ Gt(equityCurve[i + 1].equity, RunningMax(equityCurve, i))
       /\ ret[i + 1].drawdown = Num(0)

\* C11: a call of calculateDrawdownSeries returns one output point per input
\* point, in order; each output point has the fields of its input point and
\* drawdown, with date, equity and benchmark unchanged; the empty curve gives
\* the empty series; the input curve is the same after the call.
C11_DrawdownPreservesPoints ==
  [][call'.fn = "calculateDrawdownSeries" /\ call.fn = "none" =>
       /\ Len(ret') = Len(equityCurve)
       /\ \A i \in 1..Len(equityCurve) :
            /\ DOMAIN ret'[i] = DOMAIN equityCurve[i] \cup {"drawdown"}
            /\ \A f \in DOMAIN equityCurve[i] : ret'[i][f] = equityCurve[i][f]
       /\ equityCurve = <<>> => ret' = <<>>
       /\ equityCurve' = equityCurve]_vars

\* calculateDrawdownSeries has run on a curve of at least two points, the first
\* with a benchmark and the second without, and has given the second a
\* drawdown below 0
C11_Witness ==
  /\ call.fn = "calculateDrawdownSeries" /\ Len(ret) >= 2
  /\ "benchmark" \in DOMAIN equityCurve[1] /\ ret[1].benchmark = equityCurve[1].benchmark
  /\ "benchmark" \notin DOMAIN ret[2]
  /\ Lt(ret[2].drawdown, Num(0))

\* C12: calculateRollingMetrics(equityCurve, window) returns the empty sequence
\* when the curve has fewer than window points, and otherwise one point for
\* each index i with window <= i < n, in increasing i, dated
\* equityCurve[i].date: n - window points.
C12_RollingOnePointPerIndex ==
  call.fn = "calculateRollingMetrics" =>
    LET n == Len(equityCurve)
        w == call.window
    IN  /\ n < w => ret = <<>>
        /\ n >= w => Len(ret) = n - w
        /\ \A k \in 1..Len(ret) :
             /\ DOMAIN ret[k] = {"date", "sharpe", "volatility"}
             /\ ret[k].date = equityCurve[w + k].date

\* calculateRollingMetrics has produced two points with a window of two or more
C12_Witness ==
  /\ call.fn = "calculateRollingMetrics" /\ call.window >= 2
  /\ Len(ret) = 2 /\ Len(equityCurve) = call.window + 2
  /\ ret[1].date # ret[2].date

\* the mean of the simple returns between the points from..to (1-based) of a curve
MeanReturn(curve, from, to) ==
  LET r(j) == Div(Sub(curve[j + 1].equity, curve[j].equity), curve[j].equity)
      RECURSIVE total(_)
      total(j) == IF j < from THEN Num(0) ELSE Add(total(j - 1), r(j))
  IN  Div(total(to - 1), Num(to - from))

\* C13: in every point of calculateRollingMetrics, a volatility of 0 (or one
\* that is not a positive number) comes with a sharpe of exactly 0, the sharpe
\* is never the infinity or NaN of a division by a zero volatility, and with
\* volatility > 0 the sharpe is (mean(returns) * 252) / (volatility / 100).
C13_RollingSharpeGuarded ==
  call.fn = "calculateRollingMetrics" =>
    \A k \in 1..Len(ret) :
      LET vol == ret[k].volatility
          w == call.window
      IN  /\ Eq(vol, Num(0)) => ret[k].sharpe = Num(0)
          /\ ~Gt(vol, Num(0)) => ret[k].sharpe = Num(0)
          /\ IsFinite(ret[k].sharpe)
          /\ Gt(vol, Num(0)) =>
               ret[k].sharpe =
                 Div(Mul(MeanReturn(equityCurve, k, k + w - 1), Num(252)),
                     Div(vol, Num(100)))

\* calculateRollingMetrics has produced a point over a window of equal returns,
\* with volatility 0, and a point with a positive volatility and a sharpe
\* other than 0
C13_Witness ==
  /\ call.fn = "calculateRollingMetrics" /\ call.window >= 3
  /\ \E k \in 1..Len(ret) : ret[k].volatility = Num(0) /\ ret[k].sharpe = Num(0)
  /\ \E k \in 1..Len(ret) : Gt(ret[k].volatility, Num(0)) /\ ret[k].sharpe # Num(0)

\* the indices of the trades that are closed and have a pnlPercent
Participating == {k \in 1..Len(trades) : trades[k].status = "closed" /\ "pnlPercent" \in DOMAIN trades[k]}

\* the sum of the integer pnlPercent of the trades of the index set K
RECURSIVE PnlSum(_)
PnlSum(K) ==
  IF K = {} THEN 0 ELSE LET k == CHOOSE x \in K : TRUE IN trades[k].pnlPercent[1] + PnlSum(K \ {k})

\* C14: with T the closed trades that have a pnlPercent and W those of them
\* with pnlPercent > 0, analyzeTradeDistribution returns winRate = W / T * 100,
\* avgWin = the mean pnlPercent of the W winners (0 if none), avgLoss = the mean
\* pnlPercent of the other T - W (0 if none); open trades and trades without
\* pnlPercent count for nothing; with T = 0 the three are 0 and bins is empty.
C14_TradeDistributionScalars ==
  call.fn = "analyzeTradeDistribution" =>
    LET T == Participating
        W == {k \in T : trades[k].pnlPercent[1] > 0}
        L == T \ W
    IN  IF T = {}
        THEN ret = [bins |-> <<>>, winRate |-> Num(0), avgWin |-> Num(0), avgLoss |-> Num(0)]
        ELSE /\ ret.winRate = Norm(Cardinality(W) * 100, Cardinality(T))
             /\ ret.avgWin = IF W = {} THEN Num(0) ELSE Norm(PnlSum(W), Cardinality(W))
             /\ ret.avgLoss = IF L = {} THEN Num(0) ELSE Norm(PnlSum(L), Cardinality(L))
             /\ ret.bins # <<>>

\* analyzeTradeDistribution has run on a winner, a loser and an open trade that
\* has a pnlPercent
C14_Witness ==
  /\ call.fn = "analyzeTradeDistribution"
  /\ Cardinality(Participating) = 2
  /\ Gt(ret.avgWin, Num(0)) /\ Lt(ret.avgLoss, Num(0)) /\ ret.winRate = Num(50)
  /\ \E k \in 1..Len(trades) : trades[k].status = "open" /\ "pnlPercent" \in DOMAIN trades[k]

MetricOrder ==
  <<"totalReturn", "annualizedReturn", "sharpeRatio", "maxDrawdown", "winRate", "profitFactor">>

\* C15: compareBacktestMetrics returns [] for no results and otherwise six
\* rows in the order totalReturn, annualizedReturn, sharpeRatio, maxDrawdown,
\* winRate, profitFactor, each with one {name, value, best} entry per strategy
\* in input order; in every row entries of equal value are marked alike and at
\* least one entry is marked best; in the five higher-is-better rows an entry
\* is marked best exactly when its value is the maximum over the strategies.
C15_ComparisonRowsMarkBest ==
  call.fn = "compareBacktestMetrics" =>
    LET n == Len(results)
    IN  IF n = 0 THEN ret = <<>>
        ELSE /\ Len(ret) = 6
             /\ \A r \in 1..6 :
                  LET m == MetricOrder[r]
                      row == ret[r].values
                  IN  /\ ret[r].metric = metricLabels[m]
                      /\ Len(row) = n
                      /\ \A k \in 1..n :
                           /\ DOMAIN row[k] = {"name", "value", "best"}
                           /\ row[k].name = results[k].strategyName
                           /\ row[k].value = results[k].metrics[m]
                           /\ \A j \in 1..n : row[j].value = row[k].value => row[j].best = row[k].best
                           /\ m # "maxDrawdown" =>
                                (row[k].best <=> \A j \in 1..n : Le(row[j].value, row[k].value))
                      /\ \E k \in 1..n : row[k].best

\* compareBacktestMetrics has compared two strategies: one is best alone by
\* total return, the other best alone by Sharpe ratio, both best by profit factor
C15_Witness ==
  /\ call.fn = "compareBacktestMetrics" /\ Len(results) = 2
  /\ ret[1].values[1].best /\ ~ret[1].values[2].best
  /\ ~ret[3].values[1].best /\ ret[3].values[2].best
  /\ ret[6].values[1].best /\ ret[6].values[2].best

\* C16: in the maxDrawdown row of compareBacktestMetrics, when every
\* maxDrawdown is <= 0, the entries marked best are exactly those whose value
\* is closest to zero: -1 is marked best against -2, and -2 is not.
C16_SmallestDrawdownIsBest ==
  call.fn = "compareBacktestMetrics" /\ Len(results) > 0
    /\ (\A k \in 1..Len(results) : Le(results[k].metrics.maxDrawdown, Num(0))) =>
    LET row == ret[4].values
    IN  /\ ret[4].metric = "Max Drawdown (%)"
        /\ \A k \in 1..Len(row) :
             row[k].best <=>
               \A j \in 1..Len(row) : Le(AbsNum(row[k].value), AbsNum(row[j].value))

\* compareBacktestMetrics has compared a maxDrawdown of -1 with one of -2 and
\* marked the first best and the second not
C16_Witness ==
  /\ call.fn = "compareBacktestMetrics" /\ Len(results) = 2
  /\ results[1].metrics.maxDrawdown = Num(-1) /\ results[2].metrics.maxDrawdown = Num(-2)
  /\ ret[4].values[1].best /\ ~ret[4].values[2].best

\* the sum of the integer field f over the positions 1..k
RECURSIVE FieldSum(_, _)
FieldSum(f, k) == IF k = 0 THEN 0 ELSE positions[k][f][1] + FieldSum(f, k - 1)

\* C17: calculatePortfolioMetrics returns totalValue = the sum of marketValue,
\* totalPnL = the sum of unrealizedPnL, and totalPnLPercent = totalPnL /
\* (totalValue - totalPnL) * 100 for every totalValue other than 0, and 0 when
\* totalValue is 0.
C17_PortfolioMetricsFormula ==
  call.fn = "calculatePortfolioMetrics" =>
    LET totalValue == FieldSum("marketValue", Len(positions))
        totalPnL == FieldSum("unrealizedPnL", Len(positions))
    IN  /\ ret.totalValue = Num(totalValue)
        /\ ret.totalPnL = Num(totalPnL)
        /\ ret.totalPnLPercent =
             IF totalValue # 0
             THEN Mul(Div(Num(totalPnL), Num(totalValue - totalPnL)), Num(100))
             ELSE Num(0)

\* C18: calculateDiversificationScore returns a value in [0, 100] for every
\* list of positions whose allocations each lie in 0..100, whatever their
\* number and their sum.
C18_DiversificationWithin0And100 ==
  call.fn = "calculateDiversificationScore"
    /\ (\A k \in 1..Len(positions) :
          Ge(positions[k].allocation, Num(0)) /\ Le(positions[k].allocation, Num(100))) =>
    Ge(ret, Num(0)) /\ Le(ret, Num(100))

\* the sum of the squares of allocation/100 over the positions 1..k
RECURSIVE HHI(_)
HHI(k) ==
  IF k = 0 THEN Num(0)
  ELSE Add(HHI(k - 1), Div(Mul(positions[k].allocation, positions[k].allocation), Num(10000)))

\* r is the integer nearest to x, the greater one of two equally near
Rounds(r, x) == r[2] = 1 /\ Le(Sub(r, Norm(1, 2)), x) /\ Lt(x, Add(r, Norm(1, 2)))

\* C19: calculateDiversificationScore returns 0 for 0 or 1 positions and, for
\* n >= 2 positions, round((1 - HHI) / (1 - 1/n) * 100) with HHI the sum of
\* (allocation/100)^2; n equal allocations of 100/n score 100, and the
\* allocation 80/10/5/5 scores below 50.
C19_DiversificationScoreFormula ==
  call.fn = "calculateDiversificationScore" =>
    LET n == Len(positions)
    IN  /\ n <= 1 => ret = Num(0)
        /\ n >= 2 =>
             Rounds(ret, Div(Mul(Mul(Sub(Num(1), HHI(n)), Num(n)), Num(100)), Num(n - 1)))
        /\ n >= 2 /\ (\A k \in 1..n : positions[k].allocation = Norm(100, n)) =>
             ret = Num(100) /\ Gt(ret, Num(90))
        /\ positions = ConcentratedList => Lt(ret, Num(50))

\* calculateDiversificationScore has scored the portfolio 80/10/5/5 at 46
C19_Witness ==
  /\ call.fn = "calculateDiversificationScore"
  /\ Len(positions) = 4 /\ positions[1].allocation = Num(80)
  /\ ret = Num(46)

\* C21: generateIndicatorSeries(bars, p, 'ema') uses the recurrence of
\* calculateEMA: with n >= p bars, its point at bar index i equals calculateEMA
\* of the closes of bars 0..i with period p, and its last point equals
\* calculateEMA(closes, p).
C21_EMASeriesAgreesWithPoint ==
  call.fn = "generateIndicatorSeries" /\ call.type = "ema" /\ Len(bars) >= call.period =>
    LET closes == closesOf(bars)
        p == call.period
    IN  /\ Len(ret) = Len(bars) - p + 1
        /\ \A k \in 1..Len(ret) :
             ret[k].value = calculateEMA(SubSeq(closes, 1, p - 1 + k), p)
        /\ ret[Len(ret)].value = calculateEMA(closes, p)

\* C22: generateRSISeries uses the recurrence of calculateRSI: with at least
\* period + 1 bars, with or without a losing bar, the value of the last point
\* of generateRSISeries(bars, period) equals calculateRSI(closes, period).
C22_RSISeriesAgreesWithPoint ==
  call.fn = "generateRSISeries" /\ Len(bars) >= call.period + 1 =>
    /\ Len(ret) = Len(bars) - call.period
    /\ ret[Len(ret)].value = calculateRSI(closesOf(bars), call.period)

\* C23: with at least 35 bars, calculateIndicators(bars).macd has macd, signal
\* and histogram equal to the values of the last points of
\* generateMACDSeries(bars).macdLine, .signalLine and .histogram.
C23_MACDPointAgreesWithSeries ==
  call.fn = "calculateIndicators" /\ Len(bars) >= MACDSlow + MACDSignal =>
    LET series == generateMACDSeries(bars)
        lastValue(line) == line[Len(line)].value
    IN  /\ ret.macd.macd = lastValue(series.macdLine)
        /\ ret.macd.signal = lastValue(series.signalLine)
        /\ ret.macd.histogram = lastValue(series.histogram)

\* C24: calculateMACD never reports a signal or histogram that is not the
\* 9-period EMA of at least 9 MACD-line values: when that EMA is unavailable
\* (26 <= n < 35 closes, or any other case) the signal and the histogram are
\* absent, not replaced by a default such as signal = macd, histogram = 0.
C24_MACDSignalAbsentWithoutEMA ==
  call.fn = "calculateIndicators" /\ Len(bars) >= MACDSlow =>
    LET signal9 == calculateEMA(macdValuesOf(closesOf(bars)), MACDSignal)
        absent(f) == f \notin DOMAIN ret.macd \/ IsUndefined(ret.macd[f])
    IN  /\ DefinedNumber(ret.macd.macd)
        /\ IF IsUndefined(signal9) THEN absent("signal") /\ absent("histogram")
           ELSE /\ ret.macd.signal = signal9
                /\ ret.macd.histogram = Sub(ret.macd.macd, signal9)

\* the sum of the counts of the bins 1..k of the histogram returned
RECURSIVE BinCountSum(_)
BinCountSum(k) == IF k = 0 THEN 0 ELSE ret.bins[k].count + BinCountSum(k - 1)

\* C25: for a non-empty set of participating trades analyzeTradeDistribution
\* returns exactly 20 bins, bin j starting at min + j * (max - min)/20 and
\* tagged isPositive iff that start is >= 0, and every participating trade, the
\* one with the maximum pnlPercent and the case of equal pnlPercent included,
\* is counted in exactly one bin: the counts sum to the number of trades.
C25_TwentyBinsCountEveryTrade ==
  call.fn = "analyzeTradeDistribution" /\ Participating # {} =>
    LET T == Participating
        lo == CHOOSE m \in {trades[k].pnlPercent[1] : k \in T} :
                \A k \in T : m <= trades[k].pnlPercent[1]
        hi == CHOOSE m \in {trades[k].pnlPercent[1] : k \in T} :
                \A k \in T : m >= trades[k].pnlPercent[1]
        start(j) == Norm(20 * lo + j * (hi - lo), 20)
    IN  /\ Len(ret.bins) = 20
        /\ \A j \in 0..19 :
             /\ ret.bins[j + 1].isPositive = Ge(start(j), Num(0))
             /\ ret.bins[j + 1].range = toFixed1(start(j)) \o <<37>>
        /\ BinCountSum(20) = Cardinality(T)

\* C26: calculatePortfolioMetrics yields a finite totalPnLPercent for every
\* position list, also when marketValue equals unrealizedPnL so that the cost
\* basis totalValue - totalPnL is 0: no division by zero occurs.
C26_PortfolioPercentFinite ==
  call.fn = "calculatePortfolioMetrics" => DefinedNumber(ret.totalPnLPercent)

\* the curve with the equity of its point j (1-based) replaced by e
WithEquity(curve, j, e) == [curve EXCEPT ![j] = [@ EXCEPT !.equity = Num(e)]]

\* C27: the calculateRollingMetrics point dated equityCurve[i].date is computed
\* from the points i - window .. i - 1 alone: a curve that agrees with
\* equityCurve on those points gives the same sharpe and volatility at i,
\* whatever its equity at i or at any other point outside the window, and
\* whether or not it has later points.
C27_RollingPointDependsOnWindowOnly ==
  call.fn = "calculateRollingMetrics" =>
    LET n == Len(equityCurve)
        w == call.window
        \* the point k of ret is the one of the 0-based index w + k - 1, its
        \* window the 1-based points k .. w + k - 1
        same(other, k) == /\ Len(other) >= k
                          /\ other[k].sharpe = ret[k].sharpe
                          /\ other[k].volatility = ret[k].volatility
    IN  /\ \A k \in 1..Len(ret) : ret[k].date = equityCurve[w + k].date
        /\ \A j \in 1..n, e \in 0..MaxRollEquity :
             Num(e) # equityCurve[j].equity =>
               LET other == calculateRollingMetrics(WithEquity(equityCurve, j, e), w)
               IN  \A k \in 1..Len(ret) : j \notin k..(w + k - 1) => same(other, k)
        /\ \A m \in 1..n :
             LET other == calculateRollingMetrics(SubSeq(equityCurve, 1, m), w)
             IN  \A k \in 1..Len(ret) : m >= w + k => same(other, k)

\* calculateRollingMetrics has emitted, for a window of 3 over the rising
\* points 1, 2, a point with a positive sharpe, and the curve goes on after it
\* with an equity that differs from the window's
C27_Witness ==
  /\ call.fn = "calculateRollingMetrics" /\ call.window = 3 /\ Len(equityCurve) >= 5
  /\ Len(ret) >= 2 /\ Gt(ret[1].sharpe, Num(0))
  /\ equityCurve[4].equity # equityCurve[3].equity
  /\ equityCurve[5].equity # equityCurve[4].equity

\* a is a prefix of b
IsPrefix(a, b) == Len(a) <= Len(b) /\ SubSeq(b, 1, Len(a)) = a

\* the histories that data extends by at most MaxAppend elements
Shorter(data) == {SubSeq(data, 1, m) : m \in Max0(Len(data) - MaxAppend)..Len(data)}

\* C28: appending data never rewrites history: the output of each series
\* generator (SMA and EMA series, the three Bollinger bands, RSI series, MACD
\* line, signal line and histogram) on a bar sequence is a prefix of its output
\* on every extension of the sequence; likewise calculateDrawdownSeries and
\* calculateRollingMetrics on an equity curve and its extensions.
C28_AppendingKeepsHistory ==
  /\ call.fn = "generateIndicatorSeries" =>
       \A B \in Shorter(bars) :
         IsPrefix(generateIndicatorSeries(B, call.period, call.type), ret)
  /\ call.fn = "generateBollingerBandsSeries" =>
       \A B \in Shorter(bars) :
         LET before == generateBollingerBandsSeries(B, call.period, Num(call.stdDev))
         IN  /\ IsPrefix(before.upper, ret.upper)
             /\ IsPrefix(before.middle, ret.middle)
             /\ IsPrefix(before.lower, ret.lower)
  /\ call.fn = "generateRSISeries" =>
       \A B \in Shorter(bars) : IsPrefix(generateRSISeries(B, call.period), ret)
  /\ call.fn = "generateMACDSeries" =>
       \A B \in Shorter(bars) :
         LET before == generateMACDSeries(B)
         IN  /\ IsPrefix(before.macdLine, ret.macdLine)
             /\ IsPrefix(before.signalLine, ret.signalLine)
             /\ IsPrefix(before.histogram, ret.histogram)
  /\ call.fn = "calculateDrawdownSeries" =>
       \A E \in Shorter(equityCurve) : IsPrefix(calculateDrawdownSeries(E), ret)
  /\ call.fn = "calculateRollingMetrics" =>
       \A E \in Shorter(equityCurve) :
         IsPrefix(calculateRollingMetrics(E, call.window), ret)

\* generateMACDSeries has run on bars whose last two closes moved: the signal
\* line has two points or more, and the last point of the MACD line differs
\* from the one before, which the shorter history already had
C28_Witness ==
  /\ call.fn = "generateMACDSeries"
  /\ Len(ret.signalLine) >= 2
  /\ ret.macdLine[Len(ret.macdLine)].value # ret.macdLine[Len(ret.macdLine) - 1].value
  /\ ret.macdLine[Len(ret.macdLine) - 1].value # Num(0)

\* C29: once disconnect() has run (called by the component, on unmount, or by
\* the hook after a 'complete' or 'error' event or after the retries are
\* exhausted), no new EventSource is opened until the component calls
\* connect() again: a retry timer scheduled earlier never reopens the stream.
C29_NoReopenAfterDisconnect ==
  [][stopped /\ Len(sources') > Len(sources) => handler' = "connect"]_vars

\* the EventSource objects that are not closed
Live(srcs) == {id \in 1..Len(srcs) : srcs[id] # "closed"}

\* C30: the retry counter stays within 0..retryCount; a connection error with
\* counter < retryCount increments it and schedules exactly one reconnect
\* after retryDelay * counter ms; a connection error with counter = retryCount
\* schedules nothing, sets the error to 'Connection lost. Please refresh the
\* page.', reports 'Connection lost' and closes the connection; a successful
\* open resets the counter to 0; at most one EventSource is open at any time.
C30_RetryCounterBounded ==
  [][/\ retriesRef \in 0..retryCount /\ retriesRef' \in 0..retryCount
     /\ Cardinality(Live(sources)) <= 1 /\ Cardinality(Live(sources')) <= 1
     /\ handler' = "onerror" /\ retriesRef < retryCount =>
          /\ retriesRef' = retriesRef + 1
          /\ timers' = Append(timers, retryDelay * retriesRef')
          /\ error' = error /\ reported' = reported
     /\ handler' = "onerror" /\ retriesRef = retryCount =>
          /\ timers' = timers
          /\ error' = "Connection lost. Please refresh the page."
          /\ reported' = "Connection lost"
          /\ eventSourceRef' = NoSource /\ Live(sources') = {} /\ ~isConnected'
          /\ retriesRef' = retriesRef
     /\ handler' = "onopen" => retriesRef' = 0 /\ isConnected']_vars

\* the fourth connection error in a row has exhausted the retries: the counter
\* is at retryCount, the connection is closed and the error is set
C30_Witness ==
  /\ handler = "onerror" /\ retriesRef = retryCount
  /\ error = "Connection lost. Please refresh the page." /\ reported = "Connection lost"
  /\ eventSourceRef = NoSource /\ Len(sources) >= 1

====
